---- MODULE Spec2Model ----
(***************************************************************************)
(* A model of importer/import_fhir_data.py: the bucket lister, the dataset *)
(* grouper, the URL validator / $import submitter and the status poller,   *)
(* driven by main().  Python strings the code slices, searches or compares *)
(* are sequences of one-character strings; HTTP peers (the storage API,    *)
(* the bucket, the FHIR server) are the environment, whose answers are the *)
(* parameters of the actions.                                              *)
(***************************************************************************)
EXTENDS Integers, Sequences, FiniteSets, TLC

VARIABLES
    entry,          \* the function the process was started in
    args,           \* argparse namespace: command, only, skip_legacy
    pc,             \* position of the single thread of control
    pageToken,      \* params["pageToken"] of list_ndjson_objects
    pages_fetched,  \* listing requests issued so far
    pages,          \* the listing requests and their answers, in order
    ndjson_files,   \* accumulator / result of list_ndjson_objects
    dataset_dict,   \* result of discover_datasets, in insertion order
    idx,            \* position of main's for loop in dataset_dict
    dataset_name,   \* submit_import / poll_import_status argument
    resource_urls,  \* submit_import: argument, then the filtered list
    url_i,          \* submit_import: position of the probe loop in resource_urls
    valid_urls,     \* submit_import: URLs that passed the probe
    status_url,     \* Content-Location handed to poll_import_status
    jobs,           \* import jobs created on the server, with the outcome reported
    log,            \* HTTP exchanges with the bucket and the FHIR server, in order
    now,            \* seconds slept so far
    surfaced,       \* what the terminal branch printed: report or full payload
    exit_code       \* process exit status, NoExit while running

vars == <<entry, args, pc, pageToken, pages_fetched, pages, ndjson_files,
          dataset_dict,
          idx, dataset_name, resource_urls, url_i, valid_urls, status_url, jobs,
          log, now, surfaced, exit_code>>

(***************************************************************************)
(* Bounds of the model.                                                    *)
(***************************************************************************)
MaxObjects == 3     \* items a bucket listing returns in total (SpecDiscover)
MaxRunObjects == 2  \* items a bucket listing returns in total (runs of main)
MaxPages == 2       \* pages of one listing
MaxUrls == 2        \* candidate URLs of a direct submit_import call
MaxPolls == 2       \* in-progress answers the server gives to one job
MaxIssues == 2      \* issues of one OperationOutcome

(***************************************************************************)
(* Python values.                                                          *)
(***************************************************************************)
None == "None"
Missing == "Missing"     \* an absent dict key / HTTP header
NoExit == "running"

Min(a, b) == IF a < b THEN a ELSE b
Max(a, b) == IF a > b THEN a ELSE b

Ascii ==
    <<" ","!","dquote","#","$","%","&","'","(",")","*","+",",","-",".","/",
      "0","1","2","3","4","5","6","7","8","9",":",";","<","=",">","?","@",
      "A","B","C","D","E","F","G","H","I","J","K","L","M","N","O","P","Q",
      "R","S","T","U","V","W","X","Y","Z","[","bslash","]","^","_","bquote",
      "a","b","c","d","e","f","g","h","i","j","k","l","m","n","o","p","q",
      "r","s","t","u","v","w","x","y","z","{","|","}","~">>

\* ord(c): the code point that orders Python strings (the quote, the backquote and
\* the backslash, which no modelled string holds, keep their places by name)
Ord(c) == 31 + (CHOOSE i \in 1..Len(Ascii) : Ascii[i] = c)

\* a < b on Python str
RECURSIVE StrLess(_, _)
StrLess(a, b) ==
    IF b = <<>> THEN FALSE
    ELSE IF a = <<>> THEN TRUE
    ELSE IF Head(a) = Head(b) THEN StrLess(Tail(a), Tail(b))
    ELSE Ord(Head(a)) < Ord(Head(b))

\* s.find(sub): lowest 0-based index of sub in s, -1 when absent
Find(s, sub) ==
    LET at == {i \in 0..(Len(s) - Len(sub)) : SubSeq(s, i + 1, i + Len(sub)) = sub}
    IN  IF at = {} THEN -1 ELSE CHOOSE i \in at : \A j \in at : i <= j

\* sub in s
In(sub, s) == Find(s, sub) # -1

\* s[:k]
SliceTo(s, k) ==
    IF k >= 0 THEN SubSeq(s, 1, Min(k, Len(s)))
    ELSE SubSeq(s, 1, Max(0, Len(s) + k))

EndsWith(s, suffix) ==
    /\ Len(suffix) <= Len(s)
    /\ SubSeq(s, Len(s) - Len(suffix) + 1, Len(s)) = suffix

StartsWith(s, prefix) ==
    /\ Len(prefix) <= Len(s)
    /\ SubSeq(s, 1, Len(prefix)) = prefix

\* s.replace(old, new): every non-overlapping occurrence, left to right
RECURSIVE Replace(_, _, _)
Replace(s, old, new) ==
    LET i == Find(s, old)
    IN  IF i = -1 \/ old = <<>> THEN s
        ELSE SubSeq(s, 1, i) \o new
             \o Replace(SubSeq(s, i + Len(old) + 1, Len(s)), old, new)

\* sorted(S) for a set of str
RECURSIVE Sorted(_)
Sorted(S) ==
    IF S = {} THEN <<>>
    ELSE LET m == CHOOSE x \in S : \A y \in S : y = x \/ StrLess(x, y)
         IN  <<m>> \o Sorted(S \ {m})

Range(f) == {f[i] : i \in DOMAIN f}

RECURSIVE Sum(_)
Sum(s) == IF s = <<>> THEN 0 ELSE Head(s) + Sum(Tail(s))

\* sequences over S of length lo..hi
SeqsOf(S, lo, hi) == UNION {[1..n -> S] : n \in lo..hi}

(***************************************************************************)
(* Program constants.                                                      *)
(***************************************************************************)
BUCKET_BASE ==
    <<"h","t","t","p","s",":","/","/","s","t","o","r","a","g","e",".",
      "g","o","o","g","l","e","a","p","i","s",".","c","o","m","/",
      "f","h","i","r","-","a","g","g","r","e","g","a","t","o","r","-",
      "p","u","b","l","i","c">>
POLL_INTERVAL == 10
META == <<"M","E","T","A">>
NdjsonSuffix == <<".","n","d","j","s","o","n">>
JsonMarker == <<"j","s","o","n">>
LegacyPrefix == <<"R","4">>
BytesPerMB == 1024 * 1024

(***************************************************************************)
(* The environment: what the storage API may list.                         *)
(***************************************************************************)
Name_A1 == <<"A","-","M","E","T","A","-","1",".","n","d","j","s","o","n">>
Name_A2 == <<"A","-","M","E","T","A","-","2",".","n","d","j","s","o","n">>
Name_B1 == <<"B","-","M","E","T","A","-","1",".","n","d","j","s","o","n">>
Name_R4 == <<"R","4","/","A","-","M","E","T","A","-","1",".","n","d","j","s","o","n">>
Name_notes == <<"n","o","t","e","s",".","n","d","j","s","o","n">>
Name_pub == <<"p","u","b",".","n","d","j","s","o","n">>
Name_readme == <<"R","E","A","D","M","E",".","m","d">>

\* items of the listing API: name and size (bytes)
Items ==
    { [name |-> Name_A1, size |-> 100 * BytesPerMB],
      [name |-> Name_A2, size |-> 50 * BytesPerMB],
      [name |-> Name_B1, size |-> 10 * BytesPerMB],
      [name |-> Name_R4, size |-> 3 * BytesPerMB],
      [name |-> Name_notes, size |-> 512],
      [name |-> Name_pub, size |-> 1],
      [name |-> Name_readme, size |-> 2048] }

\* the buckets a run of main is checked on
RunItems == {it \in Items : it.name \in {Name_A1, Name_B1, Name_R4}}

Tokens == {"t1", "t2"}
RunTokens == {"t1"}

\* one page of the listing API: at most n items and an optional nextPageToken;
\* or an HTTP error that raise_for_status turns into an exception
PagesOf(pool, n, tokens) ==
    [kind : {"page"}, items : SeqsOf(pool, 0, n), nextPageToken : tokens]
    \cup {[kind |-> "error", items |-> <<>>, nextPageToken |-> Missing]}

(***************************************************************************)
(* list_ndjson_objects: one iteration of the paging loop.                  *)
(***************************************************************************)
\* lines 47-52: the objects a page adds
PageObjects(items) ==
    LET keep == SelectSeq(items, LAMBDA it : EndsWith(it.name, NdjsonSuffix))
    IN  [i \in 1..Len(keep) |->
            [url |-> BUCKET_BASE \o <<"/">> \o keep[i].name, size |-> keep[i].size]]

\* an uncaught exception ends the process with status 1
Crash ==
    /\ pc' = "exited"
    /\ exit_code' = 1

\* the call returns instead of ending the process
SysExit_Returns(code) ==
    /\ pc' = pc
    /\ exit_code' = exit_code

\* sys.exit(code)
SysExit(code) ==
    /\ pc' = "exited"
    /\ exit_code' = code

\* the loop stops after the first page
HasNextPage_Never(data) == FALSE

\* line 53: "nextPageToken" in data
HasNextPage(data) == data.nextPageToken # Missing

ListPage(page) ==
    /\ pc = "list"
    /\ pages_fetched' = pages_fetched + 1
    /\ pages' = Append(pages, [pageToken |-> pageToken, data |-> page])
    /\ IF page.kind = "error"
       THEN /\ Crash
            /\ UNCHANGED <<pageToken, ndjson_files>>
       ELSE /\ ndjson_files' = ndjson_files \o PageObjects(page.items)
            /\ exit_code' = exit_code
            /\ IF HasNextPage(page)
               THEN pageToken' = page.nextPageToken /\ pc' = "list"
               ELSE pageToken' = pageToken /\ pc' = "group"
    /\ UNCHANGED <<entry, args, dataset_dict, idx, dataset_name, resource_urls,
                   url_i, valid_urls, status_url, jobs, log, now, surfaced>>

\* the pages the bounds admit: at most `total` items over at most MaxPages
\* pages, the last of which carries no token
ListEnv(pool, total, tokens) ==
    PagesOf(pool, total - Sum([i \in 1..Len(pages) |-> Len(pages[i].data.items)]),
            IF pages_fetched + 1 >= MaxPages THEN {Missing} ELSE tokens \cup {Missing})

(***************************************************************************)
(* discover_datasets, lines 70-86.                                         *)
(***************************************************************************)
\* lines 70-72
RelativePath(url) == Replace(url, BUCKET_BASE \o <<"/">>, <<>>)

\* line 74, one element
ProjectName(path) == SliceTo(path, Find(path, META) + Len(META))

\* lines 70-75
Projects(objects) ==
    Sorted({ProjectName(RelativePath(objects[i].url)) : i \in DOMAIN objects})

\* the size summed over the whole listing instead of the dataset's objects
DatasetOf_SizeOfListing(project, objects) ==
    LET mine == SelectSeq(objects, LAMBDA o : In(project, o.url))
    IN  [name |-> project,
         size |-> [num |-> Sum([i \in 1..Len(objects) |-> objects[i].size]),
                   den |-> BytesPerMB],
         objects |-> [i \in 1..Len(mine) |-> mine[i].url]]

\* lines 79-84
DatasetOf(project, objects) ==
    LET mine == SelectSeq(objects, LAMBDA o : In(project, o.url))
    IN  [name |-> project,
         size |-> [num |-> Sum([i \in 1..Len(mine) |-> mine[i].size]),
                   den |-> BytesPerMB],
         objects |-> [i \in 1..Len(mine) |-> mine[i].url]]

\* lines 77-86: the dict, as its items in insertion order
GroupDatasets(objects) ==
    LET projects == Projects(objects)
    IN  [k \in 1..Len(projects) |-> DatasetOf(projects[k], objects)]

\* (the lister's params and the record of its requests go out of scope with
\* its return)
discover_datasets ==
    /\ pc = "group"
    /\ dataset_dict' = GroupDatasets(ndjson_files)
    /\ pc' = IF entry = "main" THEN "main" ELSE "returned"
    /\ idx' = 1
    /\ pageToken' = Missing
    /\ pages_fetched' = 0
    /\ pages' = <<>>
    /\ UNCHANGED <<entry, args, ndjson_files, dataset_name,
                   resource_urls, url_i, valid_urls, status_url, jobs, log, now,
                   surfaced, exit_code>>

(***************************************************************************)
(* The environment: what the bucket and the FHIR server may answer.        *)
(***************************************************************************)
CT_ndjson == <<"a","p","p","l","i","c","a","t","i","o","n","/","x","-","n","d","j","s","o","n">>
CT_fhir == <<"a","p","p","l","i","c","a","t","i","o","n","/","f","h","i","r","+","j","s","o","n">>
CT_html == <<"t","e","x","t","/","h","t","m","l">>

Raise == [kind |-> "raise"]

\* An optional value (a dict key, an HTTP header, an argument that may be
\* None) is <<>> when absent and <<v>> when present.
Absent == <<>>
Some(v) == <<v>>

\* answers to the HEAD probe of a resource URL: no answer (connection error,
\* timeout, retries exhausted), or a status and an optional Content-Type
HeadAnswers ==
    {Raise} \cup [kind : {"response"}, status : {200, 404},
                  ctype : {Some(CT_ndjson), Some(CT_html), Absent}]

\* the probe answers a run of main is checked on
RunHeadAnswers ==
    {Raise} \cup {h \in HeadAnswers : h.kind = "response" /\
                    <<h.status, h.ctype>> \in {<<404, Some(CT_html)>>,
                                               <<200, Some(CT_html)>>,
                                               <<200, Some(CT_ndjson)>>}}

StatusUrls == {"http://fhir-server:8080/fhir/$import-poll-status?_jobId=1",
               "http://fhir-server:8080/fhir/$import-poll-status?_jobId=2"}

\* answers to the $import POST: no answer, or a response with an optional
\* Content-Location header
PostAnswers ==
    {Raise} \cup [kind : {"response"}, location : StatusUrls \cup {Missing}]

\* the POST answers a run of main is checked on
RunPostAnswers ==
    {a \in PostAnswers : a.kind = "response" =>
        a.location \in {Missing, "http://fhir-server:8080/fhir/$import-poll-status?_jobId=1"}}

\* OperationOutcome.issue[].diagnostics: stand-ins for a text without the word
\* reportMsg, a JSON object with the key reportMsg, and a text that holds the
\* word reportMsg but is no JSON object with that key
DiagPlain == "Bulk import finished"
DiagReport == "{reportMsg: 3 resources imported} as JSON"
DiagBroken == "no reportMsg available"

Severities == {"information", "warning", "error", "fatal", Missing}
\* the issues an OperationOutcome is built from: every severity without
\* diagnostics, and the diagnostics with the severities that decide how they
\* are surfaced
Issues ==
    [severity : Severities, diagnostics : {Missing}]
    \cup [severity : {"information"}, diagnostics : {DiagPlain, DiagReport, DiagBroken}]
    \cup [severity : {"warning", "error"}, diagnostics : {DiagReport}]

\* a response body that is no JSON document
NotJson == [json |-> FALSE, resourceType |-> Missing, issue |-> Absent]

\* JSON bodies of a status response
OutcomeBodies(n) ==
    [json : {TRUE}, resourceType : {"OperationOutcome"},
     issue : {Absent} \cup {Some(l) : l \in SeqsOf(Issues, 0, n)}]
OtherBodies ==
    [json : {TRUE}, resourceType : {"Bundle", Missing},
     issue : {Absent, Some(<<[severity |-> "error", diagnostics |-> Missing]>>)}]
SampleBodies ==
    {NotJson,
     [json |-> TRUE, resourceType |-> Missing, issue |-> Absent],
     [json |-> TRUE, resourceType |-> "OperationOutcome",
      issue |-> Some(<<[severity |-> "error", diagnostics |-> Missing]>>)]}

\* answers to the GET of a job's status URL: no answer, or a status, an
\* optional Content-Type and a body.  The bodies are spelled out in full for
\* 200 with a JSON content-type, the one case whose body the code reads
\* beyond parsing it.
PollAnswers ==
    {Raise}
    \cup [kind : {"response"}, status : {200, 202, 404},
          ctype : {Some(CT_fhir), Some(CT_html), Absent}, body : SampleBodies]
    \cup [kind : {"response"}, status : {200}, ctype : {Some(CT_fhir)},
          body : OutcomeBodies(MaxIssues) \cup OtherBodies]

\* the status answers a run of main or of submit_import is checked on: one
\* for every way poll_import_status leaves an iteration
RunPollAnswers ==
    {Raise}
    \cup [kind : {"response"}, status : {202}, ctype : {Some(CT_fhir), Some(CT_html)},
          body : {[json |-> TRUE, resourceType |-> Missing, issue |-> Absent]}]
    \cup [kind : {"response"}, status : {200, 404}, ctype : {Some(CT_fhir)},
          body : {NotJson, [json |-> TRUE, resourceType |-> "Bundle", issue |-> Absent]}]
    \cup [kind : {"response"}, status : {200}, ctype : {Some(CT_fhir)},
          body : {[json |-> TRUE, resourceType |-> Missing, issue |-> Absent],
                  [json |-> TRUE, resourceType |-> "Bundle",
                   issue |-> Some(<<[severity |-> "information",
                                     diagnostics |-> DiagReport]>>)]}]
    \cup {[kind |-> "response", status |-> 200, ctype |-> Some(CT_html), body |-> NotJson],
          [kind |-> "response", status |-> 202, ctype |-> Absent, body |-> NotJson],
          [kind |-> "response", status |-> 404, ctype |-> Absent, body |-> NotJson]}
    \cup [kind : {"response"}, status : {200}, ctype : {Some(CT_fhir)},
          body : [json : {TRUE}, resourceType : {"OperationOutcome"},
                  issue : {Absent, Some(<<>>)} \cup
                          {Some(<<i>>) : i \in
                             {[severity |-> "information", diagnostics |-> DiagReport],
                              [severity |-> "information", diagnostics |-> DiagBroken],
                              [severity |-> "warning", diagnostics |-> Missing],
                              [severity |-> "error", diagnostics |-> DiagPlain]}}]]

(***************************************************************************)
(* Helpers of submit_import and poll_import_status.                        *)
(***************************************************************************)
\* headers.get("Content-Type", "")
ContentType(resp) == IF resp.ctype = Absent THEN <<>> ELSE resp.ctype[1]

\* line 97, the condition of the comprehension
IsNdjson(url) == EndsWith(url, NdjsonSuffix)

\* the probe with the content-type check left out
ProbePasses_AnyContentType(head) ==
    /\ head.kind = "response"
    /\ head.status = 200

\* lines 123-139: whether the probed URL reaches valid_urls.append
ProbePasses(head) ==
    /\ head.kind = "response"
    /\ head.status = 200
    /\ In(JsonMarker, ContentType(head))

\* the check made on the candidates instead of the validated URLs
NoValidResources_OfCandidates(urls) == resource_urls = <<>>

\* line 141: not valid_urls
NoValidResources(urls) == urls = <<>>

\* the header check left out
LacksLocation_Never(resp) == FALSE

\* line 166: "Content-Location" not in response.headers
LacksLocation(resp) == resp.location = Missing

\* line 146: url.split("/")[-1].replace(".ndjson", "")
LastSegment(url) ==
    LET slashes == {i \in 1..Len(url) : url[i] = "/"}
        last == IF slashes = {} THEN 0 ELSE CHOOSE i \in slashes : \A j \in slashes : j <= i
    IN  SubSeq(url, last + 1, Len(url))
ResourceTypeOf(url) == Replace(LastSegment(url), NdjsonSuffix, <<>>)

\* the payload built from the candidates instead of the validated URLs
PayloadInputs_OfCandidates(urls) ==
    [i \in 1..Len(resource_urls) |->
        [type |-> ResourceTypeOf(resource_urls[i]), url |-> resource_urls[i]]]

\* lines 145-156: the input parameters appended to the payload
PayloadInputs(urls) ==
    [i \in 1..Len(urls) |-> [type |-> ResourceTypeOf(urls[i]), url |-> urls[i]]]

Exchange(method, url, body, resp) ==
    [method |-> method, url |-> url, dataset |-> dataset_name, body |-> body,
     resp |-> resp, at |-> now]

\* the job of the dataset in hand gets the outcome the run reports
Report(state) ==
    [k \in 1..Len(jobs) |->
        IF jobs[k].dataset = dataset_name /\ jobs[k].status_url = status_url
        THEN [jobs[k] EXCEPT !.state = state] ELSE jobs[k]]

\* submit_import returns to its caller
ReturnFromSubmit ==
    /\ pc' = IF entry = "main" THEN "main" ELSE "returned"
    /\ idx' = IF entry = "main" THEN idx + 1 ELSE idx

\* the job is left unpolled
HandOff_Return == ReturnFromSubmit

\* line 178: submit_import goes on in poll_import_status
HandOff ==
    /\ pc' = "poll"
    /\ idx' = idx

\* the in-progress status is tested before the content-type
UnexpectedContentType_UnlessInProgress(resp) ==
    /\ resp.status # 202
    /\ ~In(JsonMarker, ContentType(resp))

\* line 192: "json" not in content_type
UnexpectedContentType(resp) == ~In(JsonMarker, ContentType(resp))

\* only the absence of the key is tested
UnexpectedFormat_OnlyIfMissing(body) == body.resourceType = Missing

\* lines 216-219: "resourceType" not in status_data or
\* status_data["resourceType"] != "OperationOutcome"
UnexpectedFormat(body) ==
    \/ body.resourceType = Missing
    \/ body.resourceType # "OperationOutcome"

\* the loop tests for another status code
StillProcessing_Created(resp) == resp.status = 201

\* line 200: response.status_code == 202
StillProcessing(resp) == resp.status = 202

\* line 227: issue.get("severity", "unknown")
SeverityOf(issue) == IF issue.severity = Missing THEN "unknown" ELSE issue.severity

\* lines 225-230: the loop over the issues
RECURSIVE OkAfter(_, _)
OkAfter(issues, ok) ==
    IF issues = <<>> THEN ok
    ELSE OkAfter(Tail(issues), ok /\ (SeverityOf(Head(issues)) # "error"))

\* line 241: "reportMsg" in issues[0].get("diagnostics", "")
HoldsReportMsg(issue) == issue.diagnostics \in {DiagReport, DiagBroken}

\* line 243: json.loads(issues[0]["diagnostics"])["reportMsg"] returns
LoadsReportMsg(issue) == issue.diagnostics = DiagReport

\* lines 238-242
IsSingleReport(issues) ==
    /\ Len(issues) = 1
    /\ issues[1].severity = "information"
    /\ HoldsReportMsg(issues[1])

\* in-progress answers received for the job in hand
InProgressSeen ==
    Cardinality({k \in DOMAIN log :
        /\ log[k].method = "GET"
        /\ log[k].resp.kind = "response"
        /\ log[k].resp.status = 202})

\* the status answers the bounds admit: the server reports in-progress at
\* most MaxPolls times
PollEnv(answers) ==
    {r \in answers :
        (r.kind = "response" /\ r.status = 202) => InProgressSeen < MaxPolls}

(***************************************************************************)
(* submit_import.                                                          *)
(***************************************************************************)
\* lines 97-121
SubmitEnter ==
    /\ pc = "submit_import"
    /\ LET filtered == SelectSeq(resource_urls, IsNdjson)
       IN  /\ resource_urls' = filtered
           /\ IF filtered = <<>>
              THEN ReturnFromSubmit /\ UNCHANGED <<url_i, valid_urls>>
              ELSE /\ pc' = "probe"
                   /\ url_i' = 1
                   /\ valid_urls' = <<>>
                   /\ idx' = idx
    /\ UNCHANGED <<entry, args, pageToken, pages_fetched, pages, ndjson_files,
                   dataset_dict,
                   dataset_name, status_url, jobs, log, now, surfaced, exit_code>>

\* the try statement around the loop: an exception ends the probing
AfterProbe_BreakOnException(head) ==
    IF head.kind = "raise" \/ url_i = Len(resource_urls) THEN "submit" ELSE "probe"

\* lines 122-139: where the loop goes after a probe.  The try statement is
\* inside the loop body (lines 123, 138), so whatever the probe gave, the
\* loop goes on with the next URL, and leaves after the last one.
AfterProbe(head) == IF url_i = Len(resource_urls) THEN "submit" ELSE "probe"

\* lines 122-139, one iteration
Probe(head) ==
    /\ pc = "probe"
    /\ LET url == resource_urls[url_i]
       IN  /\ log' = Append(log, Exchange("HEAD", url, None, head))
           /\ valid_urls' = IF ProbePasses(head) THEN Append(valid_urls, url)
                            ELSE valid_urls
    /\ url_i' = url_i + 1
    /\ pc' = AfterProbe(head)
    /\ UNCHANGED <<entry, args, pageToken, pages_fetched, pages, ndjson_files,
                   dataset_dict,
                   idx, dataset_name, resource_urls, status_url, jobs, now, surfaced,
                   exit_code>>

\* lines 141-143
SubmitNoValid ==
    /\ pc = "submit"
    /\ NoValidResources(valid_urls)
    /\ ReturnFromSubmit
    /\ UNCHANGED <<entry, args, pageToken, pages_fetched, pages, ndjson_files,
                   dataset_dict,
                   dataset_name, resource_urls, url_i, valid_urls, status_url, jobs,
                   log, now, surfaced, exit_code>>

\* lines 145-178
SubmitPost(resp) ==
    /\ pc = "submit"
    /\ ~NoValidResources(valid_urls)
    /\ log' = Append(log, Exchange("POST", "$import", PayloadInputs(valid_urls), resp))
    /\ IF resp.kind = "raise"
       THEN Crash /\ UNCHANGED <<status_url, jobs, idx>>
       ELSE IF LacksLocation(resp)
       THEN SysExit(1) /\ UNCHANGED <<status_url, jobs, idx>>
       ELSE /\ status_url' = resp.location
            /\ jobs' = Append(jobs, [dataset |-> dataset_name,
                                     status_url |-> resp.location,
                                     state |-> "Pending"])
            /\ HandOff
            /\ exit_code' = exit_code
    /\ UNCHANGED <<entry, args, pageToken, pages_fetched, pages, ndjson_files,
                   dataset_dict,
                   dataset_name, resource_urls, url_i, valid_urls, now, surfaced>>

(***************************************************************************)
(* poll_import_status, lines 189-251: one iteration of the loop.           *)
(***************************************************************************)
\* lines 224-251: the answer is an OperationOutcome
Terminal(body) ==
    LET issues == IF body.issue = Absent THEN <<>> ELSE body.issue[1]
        ok == OkAfter(issues, TRUE)
    IN  IF ~ok
        THEN /\ surfaced' = "payload"
             /\ jobs' = Report("Failed")
             /\ SysExit(0)
        ELSE IF IsSingleReport(issues)
        THEN IF LoadsReportMsg(issues[1])
             THEN /\ surfaced' = "report"
                  /\ jobs' = Report("Succeeded")
                  /\ SysExit(0)
             ELSE Crash /\ UNCHANGED <<surfaced, jobs>>
        ELSE /\ surfaced' = "payload"
             /\ jobs' = Report("Succeeded")
             /\ SysExit(0)

Poll(resp) ==
    /\ pc = "poll"
    /\ log' = Append(log, Exchange("GET", status_url, None, resp))
    /\ IF resp.kind = "raise"
       THEN Crash /\ UNCHANGED <<jobs, now, surfaced>>
       ELSE IF UnexpectedContentType(resp)
       THEN /\ jobs' = Report("Failed")
            /\ SysExit(1)
            /\ UNCHANGED <<now, surfaced>>
       ELSE IF ~resp.body.json
       THEN Crash /\ UNCHANGED <<jobs, now, surfaced>>
       ELSE IF StillProcessing(resp)
       THEN /\ now' = now + POLL_INTERVAL
            /\ pc' = "poll"
            /\ UNCHANGED <<jobs, surfaced, exit_code>>
       ELSE IF resp.status # 200
       THEN /\ jobs' = Report("Failed")
            /\ SysExit(1)
            /\ UNCHANGED <<now, surfaced>>
       ELSE IF UnexpectedFormat(resp.body)
       THEN /\ jobs' = Report("Failed")
            /\ SysExit(1)
            /\ UNCHANGED <<now, surfaced>>
       ELSE Terminal(resp.body) /\ now' = now
    /\ UNCHANGED <<entry, args, pageToken, pages_fetched, pages, ndjson_files,
                   dataset_dict,
                   idx, dataset_name, resource_urls, url_i, valid_urls, status_url>>

(***************************************************************************)
(* main, lines 280-295.                                                    *)
(***************************************************************************)
\* lines 291-294: the dataset is not skipped
Selected(name) ==
    /\ ~(args.skip_legacy /\ StartsWith(name, LegacyPrefix))
    /\ ~(args.only # Absent /\ args.only[1] # <<>> /\ ~In(args.only[1], name))

\* lines 280-286
MainList ==
    /\ pc = "main"
    /\ args.command = "list"
    /\ SysExit(0)
    /\ UNCHANGED <<entry, args, pageToken, pages_fetched, pages, ndjson_files,
                   dataset_dict,
                   idx, dataset_name, resource_urls, url_i, valid_urls, status_url,
                   jobs, log, now, surfaced>>

\* lines 288-295, one iteration of the loop (or its end, where main returns)
MainImport ==
    /\ pc = "main"
    /\ args.command = "import"
    /\ IF idx > Len(dataset_dict)
       THEN /\ SysExit(0)
            /\ UNCHANGED <<idx, dataset_name, resource_urls>>
       ELSE IF ~Selected(dataset_dict[idx].name)
       THEN /\ idx' = idx + 1
            /\ UNCHANGED <<pc, exit_code, dataset_name, resource_urls>>
       ELSE /\ dataset_name' = dataset_dict[idx].name
            /\ resource_urls' = dataset_dict[idx].objects
            /\ pc' = "submit_import"
            /\ UNCHANGED <<idx, exit_code>>
    /\ UNCHANGED <<entry, args, pageToken, pages_fetched, pages, ndjson_files,
                   dataset_dict,
                   url_i, valid_urls, status_url, jobs, log, now, surfaced>>

(***************************************************************************)
(* Specifications.                                                         *)
(***************************************************************************)
Idle ==
    /\ pageToken = Missing
    /\ pages_fetched = 0
    /\ pages = <<>>
    /\ ndjson_files = <<>>
    /\ dataset_dict = <<>>
    /\ idx = 0
    /\ dataset_name = <<>>
    /\ resource_urls = <<>>
    /\ url_i = 0
    /\ valid_urls = <<>>
    /\ status_url = None
    /\ jobs = <<>>
    /\ log = <<>>
    /\ now = 0
    /\ surfaced = None
    /\ exit_code = NoExit

NoArgs == [command |-> None, only |-> Absent, skip_legacy |-> FALSE]

\* discover_datasets() called on its own
InitDiscover ==
    /\ entry = "discover_datasets"
    /\ args = NoArgs
    /\ pc = "list"
    /\ Idle

NextDiscover ==
    \/ \E page \in ListEnv(Items, MaxObjects, Tokens) : ListPage(page)
    \/ discover_datasets

SpecDiscover == InitDiscover /\ [][NextDiscover]_vars

\* discover_datasets() on a bucket whose listing fits one page and whose
\* object names all hold the marker token: names in the bucket's root, in
\* the folders R4 and c, and a name that embeds the bucket's own URL
Name_cA1 == <<"c","/">> \o Name_A1
Name_nested == <<"x">> \o BUCKET_BASE \o <<"/">> \o Name_A1
GroupItems ==
    {it \in Items : it.name \in {Name_A1, Name_B1, Name_R4}}
    \cup {[name |-> Name_cA1, size |-> 7 * BytesPerMB],
          [name |-> Name_nested, size |-> 5 * BytesPerMB]}
GroupPages ==
    [kind : {"page"}, items : SeqsOf(GroupItems, 0, MaxObjects), nextPageToken : {Missing}]

NextGroup ==
    \/ \E page \in GroupPages : ListPage(page)
    \/ discover_datasets

SpecGroup == InitDiscover /\ [][NextGroup]_vars

\* python import_fhir_data.py {import,list} [--only KEYWORD] [--skip-legacy]
OnlyKeyword == <<"A","-","M">>
InitMain ==
    /\ entry = "main"
    /\ args \in [command : {"import", "list"}, only : {Absent, Some(OnlyKeyword)},
                 skip_legacy : BOOLEAN]
    /\ pc = "list"
    /\ Idle

Next ==
    \/ \E page \in ListEnv(RunItems, MaxRunObjects, RunTokens) : ListPage(page)
    \/ discover_datasets
    \/ MainList
    \/ MainImport
    \/ SubmitEnter
    \/ \E head \in RunHeadAnswers : Probe(head)
    \/ SubmitNoValid
    \/ \E resp \in RunPostAnswers : SubmitPost(resp)
    \/ \E resp \in PollEnv(RunPollAnswers) : Poll(resp)

Spec == InitMain /\ [][Next]_vars

\* submit_import(dataset_name, resource_urls) called on its own
Url_txt == BUCKET_BASE \o <<"/">> \o Name_readme
CandidateUrls ==
    {BUCKET_BASE \o <<"/">> \o n : n \in {Name_A1, Name_B1}} \cup {Url_txt}
InitSubmit ==
    /\ entry = "submit_import"
    /\ \E urls \in SeqsOf(CandidateUrls, 0, MaxUrls) :
          /\ args = [dataset_name |-> <<"A","-","M","E","T","A">>, resource_urls |-> urls]
          /\ pc = "submit_import"
          /\ pageToken = Missing
          /\ pages_fetched = 0
          /\ pages = <<>>
          /\ ndjson_files = <<>>
          /\ dataset_dict = <<>>
          /\ idx = 0
          /\ dataset_name = args.dataset_name
          /\ resource_urls = urls
          /\ url_i = 0
          /\ valid_urls = <<>>
          /\ status_url = None
          /\ jobs = <<>>
          /\ log = <<>>
          /\ now = 0
          /\ surfaced = None
          /\ exit_code = NoExit

NextSubmit ==
    \/ SubmitEnter
    \/ \E head \in HeadAnswers : Probe(head)
    \/ SubmitNoValid
    \/ \E resp \in PostAnswers : SubmitPost(resp)
    \/ \E resp \in PollEnv(RunPollAnswers) : Poll(resp)

SpecSubmit == InitSubmit /\ [][NextSubmit]_vars

\* poll_import_status(dataset_name, status_url) called on its own, for a job
\* the server holds
InitPoll ==
    /\ entry = "poll_import_status"
    /\ \E u \in StatusUrls :
          /\ args = [dataset_name |-> <<"A","-","M","E","T","A">>, status_url |-> u]
          /\ pc = "poll"
          /\ pageToken = Missing
          /\ pages_fetched = 0
          /\ pages = <<>>
          /\ ndjson_files = <<>>
          /\ dataset_dict = <<>>
          /\ idx = 0
          /\ dataset_name = args.dataset_name
          /\ resource_urls = <<>>
          /\ url_i = 0
          /\ valid_urls = <<>>
          /\ status_url = u
          /\ jobs = <<[dataset |-> args.dataset_name, status_url |-> u,
                       state |-> "Pending"]>>
          /\ log = <<>>
          /\ now = 0
          /\ surfaced = None
          /\ exit_code = NoExit

NextPoll == \E resp \in PollEnv(PollAnswers) : Poll(resp)

SpecPoll == InitPoll /\ [][NextPoll]_vars

\* a run of main against peers that cooperate: the listing succeeds, every
\* resource URL passes its probe, every $import POST is answered with a
\* Content-Location, and every job reports in-progress and then an
\* OperationOutcome without an error issue
CoopHeadAnswers == {[kind |-> "response", status |-> 200, ctype |-> Some(CT_ndjson)]}
CoopPostAnswers == {a \in RunPostAnswers : a.kind = "response" /\ a.location # Missing}
CoopPollAnswers ==
    [kind : {"response"}, status : {202}, ctype : {Some(CT_fhir)},
     body : {[json |-> TRUE, resourceType |-> Missing, issue |-> Absent]}]
    \cup [kind : {"response"}, status : {200}, ctype : {Some(CT_fhir)},
          body : [json : {TRUE}, resourceType : {"OperationOutcome"},
                  issue : {Some(<<>>),
                           Some(<<[severity |-> "information", diagnostics |-> DiagReport]>>),
                           Some(<<[severity |-> "warning", diagnostics |-> Missing]>>)}]]

NextCoop ==
    \/ \E page \in {p \in ListEnv(RunItems, MaxRunObjects, RunTokens) : p.kind = "page"} :
          ListPage(page)
    \/ discover_datasets
    \/ MainList
    \/ MainImport
    \/ SubmitEnter
    \/ \E head \in CoopHeadAnswers : Probe(head)
    \/ \E resp \in CoopPostAnswers : SubmitPost(resp)
    \/ \E resp \in PollEnv(CoopPollAnswers) : Poll(resp)

SpecCoop == InitMain /\ [][NextCoop]_vars

(***************************************************************************)
(* Vocabulary of the properties.                                           *)
(***************************************************************************)
Heads == SelectSeq(log, LAMBDA e : e.method = "HEAD")
Posts == SelectSeq(log, LAMBDA e : e.method = "POST")
Gets == SelectSeq(log, LAMBDA e : e.method = "GET")
UrlsOf(exchanges) == [i \in 1..Len(exchanges) |-> exchanges[i].url]

\* the exchange of the step just taken, when the step was an HTTP exchange
Exchanged == Len(log') = Len(log) + 1
Latest == log'[Len(log')]

HasJsonType(resp) == resp.ctype # Absent /\ In(<<"j","s","o","n">>, resp.ctype[1])

\* a probe answer that passes the three checks of the validator
Passed(e) == e.resp.kind = "response" /\ e.resp.status = 200 /\ HasJsonType(e.resp)

\* a status answer that is a terminal OperationOutcome
IsTerminalOutcome(resp) ==
    /\ resp.kind = "response"
    /\ resp.status = 200
    /\ HasJsonType(resp)
    /\ resp.body.json
    /\ resp.body.resourceType = "OperationOutcome"

\* a status answer that reports the job in progress and can be read as JSON
IsInProgress(resp) ==
    /\ resp.kind = "response"
    /\ resp.status = 202
    /\ HasJsonType(resp)
    /\ resp.body.json

IssuesOf(resp) == IF resp.body.issue = Absent THEN <<>> ELSE resp.body.issue[1]

JobStates == {jobs[k].state : k \in DOMAIN jobs}
JobsOf(name) == {k \in DOMAIN jobs : jobs[k].dataset = name}
Keys == [k \in DOMAIN dataset_dict |-> dataset_dict[k].name]

\* main's loop still has a selected dataset ahead of the one in hand
SelectedAhead == \E k \in DOMAIN dataset_dict : k > idx /\ Selected(dataset_dict[k].name)

\* an object's path relative to the bucket, and its truncation at the end of
\* the first occurrence of the marker token
NameInBucket(o) == SubSeq(o.url, Len(BUCKET_BASE) + 2, Len(o.url))
MarkerAt(path) == {i \in 1..(Len(path) - 3) : SubSeq(path, i, i + 3) = <<"M","E","T","A">>}
TruncatedAtMarker(path) ==
    SubSeq(path, 1, 3 + CHOOSE i \in MarkerAt(path) : \A j \in MarkerAt(path) : i <= j)
MarkedNames ==
    {TruncatedAtMarker(NameInBucket(o)) :
        o \in {x \in Range(ndjson_files) : MarkerAt(NameInBucket(x)) # {}}}

(***************************************************************************)
(* C1-C10.                                                                 *)
(***************************************************************************)
\* C1: after a terminal poll response (200, JSON content-type, resourceType
\* OperationOutcome) the job is classified Succeeded if no issue of the list
\* has severity error, and Failed otherwise.
C1_SucceededIffNoErrorIssue ==
    (Gets # <<>> /\ IsTerminalOutcome(Gets[Len(Gets)].resp)) =>
        LET issues == IssuesOf(Gets[Len(Gets)].resp)
            noError == \A i \in DOMAIN issues : issues[i].severity # "error"
        IN  JobStates = {IF noError THEN "Succeeded" ELSE "Failed"}

\* C2: once an $import POST is answered without a Content-Location header,
\* the run has halted with a failure status, that POST is the last request
\* ever sent, no job exists and no GET of a status URL was or is issued.
C2_MissingLocationHaltsRun ==
    \A k \in DOMAIN log :
        (log[k].method = "POST" /\ log[k].resp.kind = "response"
            /\ log[k].resp.location = Missing) =>
            /\ k = Len(log)
            /\ Gets = <<>>
            /\ jobs = <<>>
            /\ pc = "exited"
            /\ exit_code = 1

\* C2 happens: the POST of a dataset with probed URLs was answered without
\* the header while another selected dataset was still ahead.
C2_Witness ==
    /\ Posts # <<>>
    /\ Posts[1].resp.kind = "response"
    /\ Posts[1].resp.location = Missing
    /\ Heads # <<>>
    /\ SelectedAhead

\* C3: a call of submit_import whose candidates are all dropped, by the
\* suffix filter or by validation, sends no $import POST, creates no job,
\* does not end the process, and returns.
C3_NoPostWithoutValidCandidate ==
    LET candidates == SelectSeq(args.resource_urls,
                                LAMBDA u : EndsWith(u, <<".","n","d","j","s","o","n">>))
        allFailed == /\ Len(Heads) = Len(candidates)
                     /\ \A i \in DOMAIN Heads : ~Passed(Heads[i])
    IN  (candidates = <<>> \/ allFailed) =>
            /\ Posts = <<>>
            /\ jobs = <<>>
            /\ exit_code = NoExit
            /\ pc \in {"submit_import", "submit", "returned"}
            /\ candidates = <<>> => pc \in {"submit_import", "returned"} /\ Heads = <<>>

\* C3 happens: the call returned after the filter dropped a candidate and
\* validation dropped the rest.
C3_Witness ==
    /\ pc = "returned"
    /\ Heads # <<>>
    /\ Len(Heads) < Len(args.resource_urls)
    /\ \A i \in DOMAIN Heads : ~Passed(Heads[i])

\* C4: valid_urls is the subsequence, in input order, of the candidates
\* probed so far whose probe returned, with status 200 and a content-type
\* containing json; the candidates are probed in input order, once each.
C4_ValidatedIsPassingSubsequence ==
    LET candidates == SelectSeq(args.resource_urls,
                                LAMBDA u : EndsWith(u, <<".","n","d","j","s","o","n">>))
    IN  /\ UrlsOf(Heads) = SubSeq(candidates, 1, Len(Heads))
        /\ valid_urls = UrlsOf(SelectSeq(Heads, Passed))
        /\ pc \in {"submit", "poll", "returned", "exited"} => Len(Heads) = Len(candidates)

\* C4 happens: two candidates were probed, one passed and the other failed
\* on its content-type alone.
C4_Witness ==
    /\ pc = "submit"
    /\ Len(Heads) = 2
    /\ Len(valid_urls) = 1
    /\ \E i \in DOMAIN Heads :
          /\ Heads[i].resp.kind = "response"
          /\ Heads[i].resp.status = 200
          /\ ~HasJsonType(Heads[i].resp)

\* C5: with peers that cooperate, a finished import run has submitted
\* exactly one job for every selected dataset and polled it to a terminal
\* state.
C5_EverySelectedDatasetImported ==
    (pc = "exited" /\ args.command = "import") =>
        \A k \in DOMAIN dataset_dict :
            Selected(dataset_dict[k].name) =>
                /\ Cardinality(JobsOf(dataset_dict[k].name)) = 1
                /\ \A j \in JobsOf(dataset_dict[k].name) :
                      jobs[j].state \in {"Succeeded", "Failed"}

\* C6: at most one job is Pending at any time, and no HEAD probe or $import
\* POST is sent while a job is Pending.
C6_OneJobInFlight ==
    /\ [](Cardinality({k \in DOMAIN jobs : jobs[k].state = "Pending"}) <= 1)
    /\ [][(Exchanged /\ Latest.method \in {"HEAD", "POST"}) =>
            \A k \in DOMAIN jobs : jobs[k].state # "Pending"]_vars

\* C6 happens: a job is Pending and being polled while another selected
\* dataset waits for its turn.
C6_Witness ==
    /\ pc = "poll"
    /\ "Pending" \in JobStates
    /\ Gets # <<>>
    /\ SelectedAhead

\* C7 as stated: every poll response with status 202 leaves the job Pending
\* and the poller polling.
C7_Every202KeepsPolling ==
    [][(Exchanged /\ Latest.method = "GET" /\ Latest.resp.kind = "response"
            /\ Latest.resp.status = 202) =>
        (pc' = "poll" /\ JobStates' = {"Pending"})]_vars

\* C7, amended: a poll response with status 202, a content-type containing
\* json and a body that parses as JSON leaves the job Pending and the
\* process running, and the next poll follows POLL_INTERVAL seconds later;
\* after any number of such responses in a row the poller is still polling
\* a Pending job.
C7_InProgressKeepsPolling ==
    /\ [][(Exchanged /\ Latest.method = "GET" /\ IsInProgress(Latest.resp)) =>
            /\ pc' = "poll"
            /\ JobStates' = {"Pending"}
            /\ exit_code' = NoExit
            /\ now' = now + POLL_INTERVAL]_vars
    /\ []((\A i \in DOMAIN Gets : IsInProgress(Gets[i].resp)) =>
            /\ pc = "poll"
            /\ JobStates = {"Pending"}
            /\ \A i \in DOMAIN Gets : Gets[i].at = (i - 1) * POLL_INTERVAL)

\* C7 happens: the server reported in-progress MaxPolls times in a row.
C7_Witness ==
    /\ Len(Gets) = MaxPolls
    /\ \A i \in DOMAIN Gets : IsInProgress(Gets[i].resp)
    /\ pc = "poll"

\* C8: an import run that ends with a job classified Failed ends with a
\* non-zero exit code.
C8_FailedJobGivesFailureExitCode ==
    (pc = "exited" /\ "Failed" \in JobStates) => exit_code # 0

\* C9: the keys of the mapping discover_datasets returns are exactly the
\* distinct truncations of the objects' paths at the end of the marker
\* token, in strictly ascending lexicographic order.
C9_KeysAreSortedMarkerPrefixes ==
    pc = "returned" =>
        /\ Range(Keys) = MarkedNames
        /\ \A i, j \in DOMAIN Keys : i < j => StrLess(Keys[i], Keys[j])

\* C10: an object whose path holds no marker token contributes no dataset:
\* every key of the mapping is derived from a path that holds the marker.
C10_MarkerlessPathGivesNoDataset ==
    pc = "returned" => Range(Keys) \subseteq MarkedNames

(***************************************************************************)
(* C11-C20.                                                                *)
(***************************************************************************)
\* the listed objects whose URL is in a dataset's object list, in listing order
ListedIn(d) == SelectSeq(ndjson_files, LAMBDA o : o.url \in Range(d.objects))
Url(name) == BUCKET_BASE \o <<"/">> \o name
Key_A == <<"A","-","M","E","T","A">>
Key_B == <<"B","-","M","E","T","A">>

\* the listing of the scenario: A-META-1 (100 MB), A-META-2 (50 MB) and
\* B-META-1 (10 MB), each once, in any order
ScenarioListing ==
    /\ Len(ndjson_files) = 3
    /\ Range(ndjson_files) =
          {[url |-> Url(Name_A1), size |-> 100 * 1024 * 1024],
           [url |-> Url(Name_A2), size |-> 50 * 1024 * 1024],
           [url |-> Url(Name_B1), size |-> 10 * 1024 * 1024]}

\* C11: the size of every dataset discover_datasets returns is the sum of
\* the byte sizes of the listed objects of its object list over 1024*1024,
\* and the object list has one entry per such object; for the listing
\* A-META-1 (100 MB), A-META-2 (50 MB), B-META-1 (10 MB) the result is
\* exactly A-META (150 MB, 2 objects) and B-META (10 MB, 1 object).
C11_SizeIsSumOfOwnObjects ==
    pc = "returned" =>
        /\ \A k \in DOMAIN dataset_dict :
              LET d == dataset_dict[k]
              IN  /\ d.size.den = 1024 * 1024
                  /\ d.size.num = Sum([i \in 1..Len(ListedIn(d)) |-> ListedIn(d)[i].size])
                  /\ Len(d.objects) = Len(ListedIn(d))
        /\ ScenarioListing =>
              /\ Keys = <<Key_A, Key_B>>
              /\ dataset_dict[1].size.num = 150 * dataset_dict[1].size.den
              /\ Range(dataset_dict[1].objects) = {Url(Name_A1), Url(Name_A2)}
              /\ Len(dataset_dict[1].objects) = 2
              /\ dataset_dict[2].size.num = 10 * dataset_dict[2].size.den
              /\ dataset_dict[2].objects = <<Url(Name_B1)>>

\* C11 happens: discover_datasets returned two datasets for the listing of
\* the scenario.
C11_Witness ==
    /\ pc = "returned"
    /\ ScenarioListing
    /\ Len(dataset_dict) = 2

\* C12: once a status GET is answered with a content-type that does not
\* contain json (or with none), whatever the status code, the job polled is
\* classified Failed, the process has ended with status 1, and that GET is
\* the last request ever sent: no further poll, probe or $import POST.
C12_NonJsonPollHaltsRun ==
    \A k \in DOMAIN log :
        (log[k].method = "GET" /\ log[k].resp.kind = "response"
            /\ ~HasJsonType(log[k].resp)) =>
            /\ k = Len(log)
            /\ pc = "exited"
            /\ exit_code = 1
            /\ \A j \in DOMAIN jobs :
                  (jobs[j].dataset = log[k].dataset /\ jobs[j].status_url = log[k].url)
                      => jobs[j].state = "Failed"
            /\ \E j \in DOMAIN jobs :
                  jobs[j].dataset = log[k].dataset /\ jobs[j].status_url = log[k].url

\* C12 happens: a poll was answered 202 with a content-type that is not
\* JSON, after an in-progress answer, while another selected dataset was
\* still ahead.
C12_Witness ==
    /\ Len(Gets) = 2
    /\ IsInProgress(Gets[1].resp)
    /\ Gets[2].resp.kind = "response"
    /\ Gets[2].resp.status = 202
    /\ ~HasJsonType(Gets[2].resp)
    /\ SelectedAhead

\* a status answer that is JSON: the content-type says so and the body parses
IsJsonAnswer(resp) ==
    /\ resp.kind = "response"
    /\ HasJsonType(resp)
    /\ resp.body.json

\* C13: once a status GET is answered with a JSON response whose status is
\* neither 202 nor 200, or is 200 with a body whose resourceType is missing
\* or is not OperationOutcome, the job polled is classified Failed, the
\* process has ended with status 1, nothing of the issues was surfaced, and
\* that GET is the last request ever sent.
C13_UnexpectedPollAnswerHaltsRun ==
    \A k \in DOMAIN log :
        (/\ log[k].method = "GET"
         /\ IsJsonAnswer(log[k].resp)
         /\ \/ log[k].resp.status \notin {200, 202}
            \/ /\ log[k].resp.status = 200
               /\ log[k].resp.body.resourceType # "OperationOutcome") =>
            /\ k = Len(log)
            /\ pc = "exited"
            /\ exit_code = 1
            /\ surfaced = None
            /\ \A j \in DOMAIN jobs :
                  (jobs[j].dataset = log[k].dataset /\ jobs[j].status_url = log[k].url)
                      => jobs[j].state = "Failed"
            /\ \E j \in DOMAIN jobs :
                  jobs[j].dataset = log[k].dataset /\ jobs[j].status_url = log[k].url

\* C13 happens: a poll was answered 200 with a JSON body of another
\* resourceType that carries an issue list, while another selected dataset
\* was still ahead.
C13_Witness ==
    /\ Gets # <<>>
    /\ IsJsonAnswer(Gets[Len(Gets)].resp)
    /\ Gets[Len(Gets)].resp.status = 200
    /\ Gets[Len(Gets)].resp.body.resourceType = "Bundle"
    /\ Gets[Len(Gets)].resp.body.issue # <<>>
    /\ SelectedAhead

\* C14: a job is created Pending, the only changes of a job's state are
\* Pending -> Succeeded and Pending -> Failed, a job is never removed, and
\* no GET is sent to the status URL of a job that is Succeeded or Failed.
C14_TerminalStatesAreAbsorbing ==
    /\ [][/\ Len(jobs') >= Len(jobs)
          /\ \A j \in DOMAIN jobs' :
                IF j \in DOMAIN jobs
                THEN /\ jobs'[j].dataset = jobs[j].dataset
                     /\ jobs'[j].status_url = jobs[j].status_url
                     /\ \/ jobs'[j].state = jobs[j].state
                        \/ /\ jobs[j].state = "Pending"
                           /\ jobs'[j].state \in {"Succeeded", "Failed"}
                ELSE jobs'[j].state = "Pending"]_vars
    /\ [][(Exchanged /\ Latest.method = "GET") =>
            \A j \in DOMAIN jobs :
                jobs[j].status_url = Latest.url => jobs[j].state = "Pending"]_vars

\* C14 happens: a job was polled twice and classified Succeeded while
\* another selected dataset was still ahead.
C14_Witness ==
    /\ "Succeeded" \in JobStates
    /\ Len(Gets) = 2
    /\ SelectedAhead

\* what the lister keeps of a page's items: the items whose name ends in
\* .ndjson, as url (bucket base, a slash, the name) and size
KeptOf(items) ==
    LET ends(n) == Len(n) >= 7 /\ SubSeq(n, Len(n) - 6, Len(n)) = <<".","n","d","j","s","o","n">>
        keep == SelectSeq(items, LAMBDA it : ends(it.name))
    IN  [i \in 1..Len(keep) |-> [url |-> Url(keep[i].name), size |-> keep[i].size]]
RECURSIVE KeptOfPages(_)
KeptOfPages(ps) ==
    IF ps = <<>> THEN <<>> ELSE KeptOf(Head(ps).data.items) \o KeptOfPages(Tail(ps))

\* C15: the first listing request carries no page token and every later one
\* carries the nextPageToken of the page before it; a further request is
\* made exactly when the last page carried a token; the lister returns at
\* the first page without one, without error, and its result is the
\* .ndjson items of all pages fetched, in page order (empty when none
\* matches).
C15_ListerFollowsTokensAndReturnsNdjsonItems ==
    /\ \A i \in DOMAIN pages :
          /\ pages[i].pageToken = IF i = 1 THEN Missing ELSE pages[i - 1].data.nextPageToken
          /\ i < Len(pages) =>
                pages[i].data.kind = "page" /\ pages[i].data.nextPageToken # Missing
    /\ (pc = "list" /\ pages # <<>>) =>
          /\ pages[Len(pages)].data.kind = "page"
          /\ pages[Len(pages)].data.nextPageToken # Missing
    /\ (pages # <<>> /\ pages[Len(pages)].data.kind = "page"
          /\ pages[Len(pages)].data.nextPageToken = Missing) => pc = "group"
    /\ pc = "group" =>
          /\ pages # <<>>
          /\ pages[Len(pages)].data.kind = "page"
          /\ pages[Len(pages)].data.nextPageToken = Missing
          /\ ndjson_files = KeptOfPages(pages)
          /\ exit_code = NoExit

\* C15 happens: the lister returned after two pages, the first with a token,
\* having dropped an item that is no .ndjson and kept one from each page.
C15_Witness ==
    /\ pc = "group"
    /\ Len(pages) = 2
    /\ pages[1].data.nextPageToken = "t1"
    /\ Len(ndjson_files) = 2
    /\ Len(pages[1].data.items) = 2
    /\ Len(pages[2].data.items) = 1

\* whether sub occurs in s
Occurs(sub, s) == \E i \in 0..(Len(s) - Len(sub)) : SubSeq(s, i + 1, i + Len(sub)) = sub

\* C16: the object list of every dataset discover_datasets returns is the
\* URLs, in listing order, of exactly the listed objects whose path relative
\* to the bucket contains the dataset's name.
C16_ObjectsAreThoseWhosePathHoldsName ==
    pc = "returned" =>
        \A k \in DOMAIN dataset_dict :
            LET d == dataset_dict[k]
                mine == SelectSeq(ndjson_files, LAMBDA o : Occurs(d.name, NameInBucket(o)))
            IN  d.objects = [i \in 1..Len(mine) |-> mine[i].url]

\* C17: every listed object is in the object list of at least one dataset
\* discover_datasets returns, and every entry of an object list is a listed
\* object.
C17_DatasetsCoverTheListing ==
    pc = "returned" =>
        UNION {Range(dataset_dict[k].objects) : k \in DOMAIN dataset_dict}
            = {ndjson_files[i].url : i \in DOMAIN ndjson_files}

\* the candidates of a direct call of submit_import: its URLs with the
\* data-file suffix
Candidates ==
    SelectSeq(args.resource_urls, LAMBDA u : EndsWith(u, <<".","n","d","j","s","o","n">>))

\* C18: a HEAD probe that raises, returns another status than 200 or has a
\* content-type without json leaves the process running, adds nothing to
\* valid_urls and is followed by the probe of the next candidate, or by the
\* end of the probing after the last one; whatever probes failed, once the
\* probing is over every candidate was probed exactly once, in order; and
\* the process never ends on a probe.
C18_FailedProbeDoesNotAbort ==
    /\ [][(Exchanged /\ Latest.method = "HEAD" /\ ~Passed(Latest)) =>
            /\ exit_code' = NoExit
            /\ valid_urls' = valid_urls
            /\ Latest.url = Candidates[Len(Heads) + 1]
            /\ pc' = IF Len(Heads) + 1 < Len(Candidates) THEN "probe" ELSE "submit"]_vars
    /\ []((Heads # <<>> /\ pc # "probe") => UrlsOf(Heads) = Candidates)
    /\ [](pc = "exited" => log[Len(log)].method # "HEAD")

\* C18 happens: the probe of the first candidate raised, the second
\* candidate was probed all the same and passed, and its job was submitted.
C18_Witness ==
    /\ Len(Heads) = 2
    /\ Heads[1].resp.kind = "raise"
    /\ Passed(Heads[2])
    /\ pc = "poll"

\* C19: after a terminal OperationOutcome the report message is what was
\* surfaced if no issue has severity error and the payload has exactly one
\* issue, of severity information, whose diagnostics carries a report
\* message; in every other case the full payload is what was surfaced.  Two
\* in-progress answers followed by such a single-issue payload end with the
\* job Succeeded and the message surfaced.
C19_ReportSurfacedIffSingleInformationIssue ==
    (Gets # <<>> /\ IsTerminalOutcome(Gets[Len(Gets)].resp)) =>
        LET issues == IssuesOf(Gets[Len(Gets)].resp)
            noError == \A i \in DOMAIN issues : issues[i].severity # "error"
            single == /\ Len(issues) = 1
                      /\ issues[1].severity = "information"
                      /\ issues[1].diagnostics = DiagReport
        IN  /\ surfaced = IF noError /\ single THEN "report" ELSE "payload"
            /\ (single /\ Len(Gets) = 3 /\ IsInProgress(Gets[1].resp)
                    /\ IsInProgress(Gets[2].resp)) => JobStates = {"Succeeded"}

\* C20: in the workflow of a dataset every HEAD probe comes before the
\* $import POST, there is at most one POST, every status GET comes after a
\* POST answered with a Content-Location header and goes to the URL of that
\* header, and the input entries of the POST are the URLs whose probe
\* passed, one entry each, in the order they were probed.
C20_RequestsOfADatasetAreOrdered ==
    /\ \A i, j \in DOMAIN log :
          (log[i].method = "HEAD" /\ log[j].method = "POST"
              /\ log[i].dataset = log[j].dataset) => i < j
    /\ \A i, j \in DOMAIN log :
          (log[i].method = "POST" /\ log[j].method = "POST"
              /\ log[i].dataset = log[j].dataset) => i = j
    /\ \A j \in DOMAIN log :
          log[j].method = "GET" =>
              \E i \in 1..(j - 1) :
                  /\ log[i].method = "POST"
                  /\ log[i].dataset = log[j].dataset
                  /\ log[i].resp.kind = "response"
                  /\ log[i].resp.location # Missing
                  /\ log[j].url = log[i].resp.location
    /\ \A j \in DOMAIN log :
          log[j].method = "POST" =>
              LET probes == SelectSeq(SubSeq(log, 1, j - 1),
                                      LAMBDA e : e.method = "HEAD" /\ e.dataset = log[j].dataset)
              IN  [i \in 1..Len(log[j].body) |-> log[j].body[i].url]
                      = UrlsOf(SelectSeq(probes, Passed))

\* C20 happens: of two candidates probed the second alone passed, the POST
\* carried that one URL and was answered with the status URL of job 2, and
\* that URL was polled twice.
C20_Witness ==
    /\ Len(Heads) = 2
    /\ ~Passed(Heads[1])
    /\ Len(Posts) = 1
    /\ Len(Posts[1].body) = 1
    /\ Posts[1].resp.kind = "response"
    /\ Posts[1].resp.location = "http://fhir-server:8080/fhir/$import-poll-status?_jobId=2"
    /\ Len(Gets) = 2

====
